---- MODULE Spec2Model ----
(***************************************************************************)
(* A model of DuckDB's ColumnDataCollection (column_data_collection.cpp)   *)
(* and ValidityMask (validity_mask.cpp).                                   *)
(*                                                                         *)
(* Specifications over one set of variables:                               *)
(*   Spec         the collection engine: construct, append, reset          *)
(*   SpecCombine  construct, append, combine                               *)
(*   SpecAll      construct, append, combine, reset                        *)
(*   SpecMask     the validity mask algebra: Combine, Slice, Resize        *)
(*   SpecPar      the parallel scan of one collection by several workers   *)
(*   SpecParFair  SpecPar with every worker scheduled fairly                *)
(*   SpecScan     sequential scans of one collection by two cursors        *)
(*   SpecNested   appends of list and struct columns into one segment      *)
(***************************************************************************)
EXTENDS Integers, Sequences, FiniteSets, TLC

VARIABLES colls, appended, combines, last, crashed, masks, arrays, buffers, mlast, pcoll, pscan, plock, pc, plocal, handed, produced,
          scoll, cursors, slog, restarts, nseg, nlog

vars == <<colls, appended, combines, last, crashed, masks, arrays, buffers, mlast, pcoll, pscan, plock, pc, plocal, handed, produced,
          scoll, cursors, slog, restarts, nseg, nlog>>

collVars == <<colls, appended, combines, last, crashed>>

maskVars == <<masks, arrays, buffers, mlast>>

parVars == <<pcoll, pscan, plock, pc, plocal, handed, produced>>

scanVars == <<scoll, cursors, slog, restarts>>

nestVars == <<nseg, nlog>>

(***************************************************************************)
(* Bounds.  The program's vector size is 2048 rows and a validity word has *)
(* 64 bits; the model keeps the code's arithmetic and scales both down.    *)
(***************************************************************************)
STANDARD_VECTOR_SIZE == 4

BITS_PER_VALUE == 2

\* the number of rows the collections hold together
MaxRows == STANDARD_VECTOR_SIZE + 2

\* the number of null rows the collections hold together
MaxNulls == 1

\* the number of Combine calls that merge, in one behaviour
MaxCombines == 2

\* the number of invalid rows of a validity mask the mask operations start from
MaxInvalid == 2

\* the number of workers of a parallel scan
NumWorkers == 2

\* the Scan calls on one cursor that return false, and the InitializeScan
\* calls on one used cursor
MaxFalse == 2

MaxRestarts == 1

\* the Append calls on the collection with nested columns
MaxAppends == 2

MinValue(a, b) == IF a < b THEN a ELSE b

(***************************************************************************)
(* Validity words and bit arrays (validity_t[]).  Entry e of an array is   *)
(* kept at index e + 1; bit b of a word is TRUE when the row is valid.     *)
(***************************************************************************)
Bits == 0..(BITS_PER_VALUE - 1)

MAX_ENTRY == [b \in Bits |-> TRUE]

EntryCount(count) == (count + (BITS_PER_VALUE - 1)) \div BITS_PER_VALUE

STANDARD_ENTRY_COUNT == EntryCount(STANDARD_VECTOR_SIZE)

\* ValidityData::ValidityData(idx_t count): a new array, every entry MAX_ENTRY
NewValidityData(count) == [e \in 1..EntryCount(count) |-> MAX_ENTRY]

\* ValidityData::ValidityData(const ValidityMask &original, idx_t count)
CopyValidityData(original, count) == [e \in 1..EntryCount(count) |-> original[e]]

\* ValidityMask::RowIsValid on a materialized array
RowIsValidUnsafe(arr, row) == arr[(row \div BITS_PER_VALUE) + 1][row % BITS_PER_VALUE]

\* ValidityMask::SetInvalid on a materialized array
SetInvalidUnsafe(arr, row) == [arr EXCEPT ![(row \div BITS_PER_VALUE) + 1][row % BITS_PER_VALUE] = FALSE]

(***************************************************************************)
(* Input batches.  A column of a batch is what Orrify gives: the physical  *)
(* values, a validity mask over the physical positions (absent when every  *)
(* row is valid) and a selection from logical rows to physical positions.  *)
(***************************************************************************)
Types == {"INT32", "VARCHAR"}

TypeLists == {<<"INT32">>, <<"INT32", "VARCHAR">>, <<"VARCHAR", "INT32">>}

\* string_t::IsInlined: the model's strings with an even id are short
IsInlined(id) == id % 2 = 0

UninitCell == [k |-> "uninit", loc |-> "none", ref |-> 0]

\* the value of column type ty carrying the payload id, as the batch holds it
InputCell(ty, id) == IF ty = "INT32" THEN [k |-> "INT32", loc |-> "inline", ref |-> id] ELSE [k |-> "VARCHAR", loc |-> IF IsInlined(id) THEN "inline" ELSE "input", ref |-> id]

NoValidity == [set |-> FALSE, bits |-> <<>>]

\* the selection of a flat vector (identity) or of a dictionary vector (here: reversed)
SelVector(n, mode) == [i \in 1..n |-> IF mode = "flat" THEN i - 1 ELSE n - i]

\* the batch of n rows with payloads base .. base+n-1 in logical order;
\* column nullcol (0: none) has a materialized mask, with physical position
\* nullpos invalid when nullpos < n
MkBatch(types, n, base, mode, nullcol, nullpos) ==
    [types |-> types,
     size |-> n,
     data |-> [j \in 1..Len(types) |->
        [data |-> [p \in 1..n |-> InputCell(types[j], base + (IF mode = "flat" THEN p - 1 ELSE n - p))],
         sel |-> SelVector(n, mode),
         validity |-> IF j = nullcol
                      THEN [set |-> TRUE,
                            bits |-> IF nullpos < n
                                     THEN SetInvalidUnsafe(NewValidityData(STANDARD_VECTOR_SIZE), nullpos)
                                     ELSE NewValidityData(STANDARD_VECTOR_SIZE)]
                      ELSE NoValidity]]]

\* ValidityMask::AllValid / RowIsValid on a source column's mask
SrcAllValid(validity) == ~validity.set

SrcRowIsValid(validity, idx) == IF ~validity.set THEN TRUE ELSE RowIsValidUnsafe(validity.bits, idx)

\* the bytes a cell denotes: a heap reference reads the segment's heap, and a
\* reference into an input batch is dangling once the cell is in storage
Garbage == 0 - 1

CellValue(cell, heap, inputAlive) ==
    IF cell.loc = "inline" THEN cell.ref
    ELSE IF cell.loc = "heap" THEN (IF cell.ref \in 1..Len(heap) THEN heap[cell.ref] ELSE Garbage)
    ELSE IF cell.loc = "input" /\ inputAlive THEN cell.ref
    ELSE Garbage

\* the logical rows of a batch: row i, column j is the physical position sel[i]
LogicalRows(input) ==
    [i \in 1..input.size |->
        [j \in 1..Len(input.types) |->
            LET src == input.data[j]
                idx == src.sel[i]
                ok == SrcRowIsValid(src.validity, idx)
            IN [valid |-> ok, val |-> IF ok THEN CellValue(src.data[idx + 1], <<>>, TRUE) ELSE 0]]]

(***************************************************************************)
(* Storage.  A collection owns segments; a segment owns chunks and a heap; *)
(* a chunk holds one stored vector per column: the running count, the      *)
(* value slots written so far and the validity array behind them.          *)
(***************************************************************************)
NullSeg == [null |-> TRUE, count |-> 0, chunk_data |-> <<>>, heap |-> <<>>]

\* ColumnDataCollectionSegment(allocator, types): no chunks, empty heap
NewSegment == [null |-> FALSE, count |-> 0, chunk_data |-> <<>>, heap |-> <<>>]

\* AllocateVector: a fresh slot, count 0, its memory not yet written
NewVectorData == [count |-> 0, data |-> <<>>, validity |-> <<>>]

\* ColumnDataCollectionSegment::AllocateNewChunk: an empty chunk with one
\* fresh vector slot per schema column
AllocateNewChunk(segment, types) ==
    [segment EXCEPT !.chunk_data = Append(@, [count |-> 0, vector_data |-> [j \in 1..Len(types) |-> NewVectorData]])]

\* Initialize(types): count 0, not finished, no segments
NewCollection(types) == [alive |-> TRUE, types |-> types, count |-> 0, segments |-> <<>>, finished_append |-> FALSE]

\* a collection object that has not been constructed yet
NoCollection == [alive |-> FALSE, types |-> <<>>, count |-> 0, segments |-> <<>>, finished_append |-> FALSE]

\* D_ASSERT(condition): passes when the condition holds, a fault otherwise
D_ASSERT(condition) == condition

\* ColumnDataCollection::CreateSegment
CreateSegment(coll) == [coll EXCEPT !.segments = Append(@, NewSegment)]

\* segments.back() is a moved-from (null) unique_ptr
NullBack(coll) == coll.segments # <<>> /\ coll.segments[Len(coll.segments)].null

\* ColumnDataCollection::InitializeAppend, after its assertion
InitializeAppend(coll) ==
    LET c1 == IF coll.segments = <<>> THEN CreateSegment(coll) ELSE coll
        si == Len(c1.segments)
        segment == c1.segments[si]
    IN IF segment.chunk_data = <<>>
       THEN [c1 EXCEPT !.segments[si] = AllocateNewChunk(segment, coll.types)]
       ELSE c1

\* ColumnDataCopyValidity reading the source mask at the logical row, not
\* through the selection
ColumnDataCopyValidityNoSel(source_data, target, source_offset, target_offset, copy_count) ==
    LET t0 == IF target_offset = 0 THEN NewValidityData(STANDARD_VECTOR_SIZE) ELSE target
        hit(row) == \E i \in 0..(copy_count - 1) :
                       /\ row = target_offset + i
                       /\ ~SrcRowIsValid(source_data.validity, source_offset + i)
    IN IF SrcAllValid(source_data.validity)
       THEN t0
       ELSE [e \in 1..Len(t0) |-> [b \in Bits |-> IF hit((e - 1) * BITS_PER_VALUE + b) THEN FALSE ELSE t0[e][b]]]

\* ColumnDataCopyValidity: the target's validity array after the call
ColumnDataCopyValidity(source_data, target, source_offset, target_offset, copy_count) ==
    LET t0 == IF target_offset = 0 THEN NewValidityData(STANDARD_VECTOR_SIZE) ELSE target
        hit(row) == \E i \in 0..(copy_count - 1) :
                       /\ row = target_offset + i
                       /\ ~SrcRowIsValid(source_data.validity, source_data.sel[source_offset + i + 1])
    IN IF SrcAllValid(source_data.validity)
       THEN t0
       ELSE [e \in 1..Len(t0) |-> [b \in Bits |-> IF hit((e - 1) * BITS_PER_VALUE + b) THEN FALSE ELSE t0[e][b]]]

\* StandardValueCopy::Operation
StandardValueCopy(heap, input) == [cell |-> input, heap |-> heap]

\* StringValueCopy::Operation: an inlined string is stored as it is, any
\* other is added to the segment's heap and the slot refers to the blob
StringValueCopy(heap, input) ==
    IF input.loc = "inline"
    THEN [cell |-> input, heap |-> heap]
    ELSE [cell |-> [k |-> input.k, loc |-> "heap", ref |-> Len(heap) + 1], heap |-> Append(heap, input.ref)]

\* ColumnDataCollection::GetCopyFunction: the value operation of a column type
GetCopyFunction(type) == IF type = "VARCHAR" THEN "StringValueCopy" ELSE "StandardValueCopy"

Operation(op, heap, input) == IF op = "StringValueCopy" THEN StringValueCopy(heap, input) ELSE StandardValueCopy(heap, input)

\* the value loop of TemplatedColumnDataCopy, rows i .. copy_count-1
RECURSIVE CopyValues(_, _, _, _, _, _, _)
CopyValues(op, source_data, source_offset, copy_count, i, data, heap) ==
    IF i >= copy_count
    THEN [data |-> data, heap |-> heap]
    ELSE LET source_idx == source_data.sel[source_offset + i + 1]
         IN IF SrcRowIsValid(source_data.validity, source_idx)
            THEN LET r == Operation(op, heap, source_data.data[source_idx + 1])
                 IN CopyValues(op, source_data, source_offset, copy_count, i + 1, Append(data, r.cell), r.heap)
            ELSE CopyValues(op, source_data, source_offset, copy_count, i + 1, Append(data, UninitCell), heap)

\* TemplatedColumnDataCopy<T, OP>: the stored vector and the heap after the call
TemplatedColumnDataCopy(op, vector_data, heap, source_data, source_offset, copy_count) ==
    LET validity == ColumnDataCopyValidity(source_data, vector_data.validity, source_offset, vector_data.count, copy_count)
        r == CopyValues(op, source_data, source_offset, copy_count, 0, vector_data.data, heap)
    IN [vector_data |-> [count |-> vector_data.count + copy_count, data |-> r.data, validity |-> validity],
        heap |-> r.heap]

\* the column loop of Append (lines 355-360), columns vector_idx .. last
RECURSIVE CopyColumns(_, _, _, _, _, _)
CopyColumns(segment, types, input, offset, append_amount, vector_idx) ==
    IF vector_idx > Len(types)
    THEN segment
    ELSE LET ci == Len(segment.chunk_data)
             r == TemplatedColumnDataCopy(GetCopyFunction(types[vector_idx]), segment.chunk_data[ci].vector_data[vector_idx],
                                          segment.heap, input.data[vector_idx], offset, append_amount)
             seg1 == [segment EXCEPT !.chunk_data[ci].vector_data[vector_idx] = r.vector_data, !.heap = r.heap]
         IN CopyColumns(seg1, types, input, offset, append_amount, vector_idx + 1)

\* the while loop of Append allocating a chunk after every round, whether
\* or not rows remain
RECURSIVE AppendLoopEager(_, _, _, _)
AppendLoopEager(segment, types, input, remaining) ==
    IF remaining = 0
    THEN segment
    ELSE LET ci == Len(segment.chunk_data)
             append_amount == MinValue(remaining, STANDARD_VECTOR_SIZE - segment.chunk_data[ci].count)
             offset == input.size - remaining
             seg1 == IF append_amount > 0
                     THEN [CopyColumns(segment, types, input, offset, append_amount, 1) EXCEPT !.chunk_data[ci].count = @ + append_amount]
                     ELSE segment
             seg2 == AllocateNewChunk(seg1, types)
         IN AppendLoopEager(seg2, types, input, remaining - append_amount)

\* the while loop of Append (lines 349-370)
RECURSIVE AppendLoop(_, _, _, _)
AppendLoop(segment, types, input, remaining) ==
    IF remaining = 0
    THEN segment
    ELSE LET ci == Len(segment.chunk_data)
             append_amount == MinValue(remaining, STANDARD_VECTOR_SIZE - segment.chunk_data[ci].count)
             offset == input.size - remaining
             seg1 == IF append_amount > 0
                     THEN [CopyColumns(segment, types, input, offset, append_amount, 1) EXCEPT !.chunk_data[ci].count = @ + append_amount]
                     ELSE segment
             seg2 == IF remaining - append_amount > 0 THEN AllocateNewChunk(seg1, types) ELSE seg1
         IN AppendLoop(seg2, types, input, remaining - append_amount)

\* Append(state, input) without line 371, segment.count += input.size()
AppendChunkNoSegmentCount(coll, input) ==
    LET si == Len(coll.segments)
        segment == AppendLoop(coll.segments[si], coll.types, input, input.size)
    IN [coll EXCEPT !.segments[si] = segment, !.count = @ + input.size]

\* ColumnDataCollection::Append(state, input), after its assertions
AppendChunk(coll, input) ==
    LET si == Len(coll.segments)
        segment == AppendLoop(coll.segments[si], coll.types, input, input.size)
    IN [coll EXCEPT !.segments[si] = [segment EXCEPT !.count = @ + input.size], !.count = @ + input.size]

\* ColumnDataCollection(ColumnDataCollection &other): the new collection
CopyConstructed(other) == NewCollection(other.types)

\* the copy constructor without line 65, other.finished_append = true
CopyConstructSourceStaysOpen(other) == other

\* ColumnDataCollection(ColumnDataCollection &other): what becomes of other
CopyConstructSource(other) == [other EXCEPT !.finished_append = TRUE]

\* Combine without its schema test
CombineMismatchUnchecked(coll, other) == FALSE

\* Combine's schema test (line 476)
CombineMismatch(coll, other) == coll.types # other.types

\* Combine: the receiver after the call
Combine(coll, other) == [coll EXCEPT !.count = @ + other.count, !.segments = @ \o other.segments]

\* Combine: the argument after the call; every unique_ptr was moved from
CombineOther(other) == [other EXCEPT !.segments = [i \in 1..Len(other.segments) |-> NullSeg]]

\* ColumnDataCollection::Reset
Reset(coll) == [coll EXCEPT !.count = 0, !.segments = <<>>]

(***************************************************************************)
(* Scan.                                                                   *)
(***************************************************************************)
\* ColumnDataCollection::InitializeScan(ColumnDataScanState &)
InitializeScan == [chunk_index |-> 0, segment_index |-> 0, current_row_index |-> 0, next_row_index |-> 0]

\* InitializeScan that leaves segment_index as it is
InitializeScanKeepsSegment(state) == [state EXCEPT !.chunk_index = 0, !.current_row_index = 0, !.next_row_index = 0]

\* ColumnDataCollection::InitializeScan(ColumnDataScanState &) on a cursor
\* that has been used
InitializeScanState(state) == [state EXCEPT !.chunk_index = 0, !.segment_index = 0, !.current_row_index = 0, !.next_row_index = 0]

\* the while loop of NextScanIndex without line 431, state.chunk_index = 0
RECURSIVE SkipExhaustedKeepsChunkIndex(_, _)
SkipExhaustedKeepsChunkIndex(state, segments) ==
    IF segments[state.segment_index + 1].null
    THEN [result |-> "crash", state |-> state]
    ELSE IF state.chunk_index >= Len(segments[state.segment_index + 1].chunk_data)
    THEN LET s1 == [state EXCEPT !.segment_index = @ + 1]
         IN IF s1.segment_index >= Len(segments)
            THEN [result |-> "false", state |-> s1]
            ELSE SkipExhaustedKeepsChunkIndex(s1, segments)
    ELSE [result |-> "true", state |-> state]

\* the while loop of NextScanIndex (lines 429-437): the cursor at the next
\* segment that still has a chunk; a null segment is dereferenced (crash)
RECURSIVE SkipExhausted(_, _)
SkipExhausted(state, segments) ==
    IF segments[state.segment_index + 1].null
    THEN [result |-> "crash", state |-> state]
    ELSE IF state.chunk_index >= Len(segments[state.segment_index + 1].chunk_data)
    THEN LET s1 == [state EXCEPT !.chunk_index = 0, !.segment_index = @ + 1]
         IN IF s1.segment_index >= Len(segments)
            THEN [result |-> "false", state |-> s1]
            ELSE SkipExhausted(s1, segments)
    ELSE [result |-> "true", state |-> state]

\* ColumnDataCollection::NextScanIndex: the result, the cursor after the
\* call and the three output parameters
NextScanIndex(state, segments) ==
    LET s0 == [state EXCEPT !.current_row_index = state.next_row_index]
        none == [result |-> "false", state |-> s0, chunk_index |-> 0, segment_index |-> 0, row_index |-> s0.current_row_index]
    IN IF s0.segment_index >= Len(segments)
       THEN none
       ELSE LET sk == SkipExhausted(s0, segments)
                s1 == sk.state
            IN IF sk.result # "true"
               THEN [none EXCEPT !.result = sk.result, !.state = s1]
               ELSE [result |-> "true",
                     state |-> [s1 EXCEPT !.next_row_index = @ + segments[s1.segment_index + 1].chunk_data[s1.chunk_index + 1].count,
                                          !.chunk_index = @ + 1],
                     chunk_index |-> s1.chunk_index,
                     segment_index |-> s1.segment_index,
                     row_index |-> s0.current_row_index]

\* ColumnDataCollectionSegment::ReadChunk: the rows of one chunk, the inverse
\* of the append
ReadChunk(segment, chunk_index) ==
    LET chunk == segment.chunk_data[chunk_index + 1]
    IN [i \in 1..chunk.count |->
          [j \in 1..Len(chunk.vector_data) |->
              LET vec == chunk.vector_data[j]
                  ok == RowIsValidUnsafe(vec.validity, i - 1)
              IN [valid |-> ok, val |-> IF ok THEN CellValue(vec.data[i], segment.heap, FALSE) ELSE 0]]]

\* the loop of Scan(callback) (lines 461-470): every Scan call until one
\* returns false, from the cursor state; rows and chunks in scan order
RECURSIVE ScanLoop(_, _, _, _)
ScanLoop(state, segments, rows, chunks) ==
    LET n == NextScanIndex(state, segments)
    IN IF n.result = "true"
       THEN ScanLoop(n.state, segments, rows \o ReadChunk(segments[n.segment_index + 1], n.chunk_index),
                     Append(chunks, <<n.segment_index, n.chunk_index>>))
       ELSE [result |-> n.result, rows |-> rows, chunks |-> chunks, state |-> n.state]

\* a sequential scan of the whole collection from a freshly initialized cursor
ScanAll(coll) == ScanLoop(InitializeScan, coll.segments, <<>>, <<>>)

\* ColumnDataCollection::Verify under DEBUG: "crash" on a null segment,
\* "fault" when the segment counts do not add up to the collection's count
RECURSIVE SumSegmentCounts(_, _)
SumSegmentCounts(segments, i) == IF i > Len(segments) THEN 0 ELSE segments[i].count + SumSegmentCounts(segments, i + 1)

Verify(coll) ==
    IF \E i \in 1..Len(coll.segments) : coll.segments[i].null THEN "crash"
    ELSE IF ~D_ASSERT(SumSegmentCounts(coll.segments, 1) = coll.count) THEN "fault"
    ELSE "ok"

(***************************************************************************)
(* The collection engine as a state machine.                               *)
(*   colls     the collection objects                                      *)
(*   appended  per collection, the rows it should hold, in order, whether  *)
(*             it was only ever appended to, and whether a collection was  *)
(*             constructed from it                                         *)
(*   combines  the number of Combine calls that merged (bounds the runs)   *)
(*   last      the operation of the last step and how it ended             *)
(*   crashed   the process dereferenced a null segment                     *)
(***************************************************************************)
Colls == {1, 2}

\* the variables of the other specifications, at rest
MaskIdle == masks = <<>> /\ arrays = <<>> /\ buffers = <<>> /\ mlast = <<>>

ScanIdle == scoll = <<>> /\ cursors = <<>> /\ slog = <<>> /\ restarts = <<>>

NestIdle == nseg = <<>> /\ nlog = <<>>

ParIdle == pcoll = <<>> /\ pscan = <<>> /\ plock = 0 /\ pc = <<>> /\ plocal = <<>> /\ handed = <<>> /\ produced = <<>>

Rest == UNCHANGED <<maskVars, parVars, scanVars, nestVars>>

NoAppended == [rows |-> <<>>, pure |-> TRUE, moved |-> FALSE]

Outcome(op, c, o, fault) == [op |-> op, c |-> c, o |-> o, fault |-> fault]

Other == Outcome("other", 0, 0, FALSE)

InitColl ==
    /\ colls = [c \in Colls |-> NoCollection]
    /\ appended = [c \in Colls |-> NoAppended]
    /\ combines = 0
    /\ last = Outcome("none", 0, 0, FALSE)
    /\ crashed = FALSE

\* the schemas a collection object is constructed with
Schemas(c) == IF c = 1 THEN {<<"INT32", "VARCHAR">>} ELSE TypeLists

\* the constructors of lines 43-61
Construct(c, types) ==
    /\ Rest
    /\ ~crashed /\ ~colls[c].alive
    /\ colls' = [colls EXCEPT ![c] = NewCollection(types)]
    /\ last' = Other
    /\ UNCHANGED <<appended, combines, crashed>>

\* ColumnDataCollection(ColumnDataCollection &other) (lines 63-66)
CopyConstruct(c, other) ==
    /\ Rest
    /\ ~crashed /\ ~colls[c].alive /\ colls[other].alive
    /\ colls' = [colls EXCEPT ![c] = CopyConstructed(colls[other]), ![other] = CopyConstructSource(colls[other])]
    /\ appended' = [appended EXCEPT ![other].moved = TRUE]
    /\ last' = Outcome("CopyConstruct", c, other, FALSE)
    /\ UNCHANGED <<combines, crashed>>

\* InitializeAppend(state) (lines 88-99)
DoInitializeAppend(c) ==
    /\ Rest
    /\ ~crashed /\ colls[c].alive
    /\ IF ~D_ASSERT(~colls[c].finished_append)
       THEN /\ last' = Outcome("InitializeAppend", c, 0, TRUE)
            /\ UNCHANGED <<colls, crashed>>
       ELSE IF NullBack(colls[c])
       THEN /\ crashed' = TRUE
            /\ last' = Other
            /\ UNCHANGED colls
       ELSE /\ colls' = [colls EXCEPT ![c] = InitializeAppend(colls[c])]
            /\ last' = Outcome("InitializeAppend", c, 0, FALSE)
            /\ UNCHANGED crashed
    /\ UNCHANGED <<appended, combines>>

\* the rows, and the null rows, the collections should hold together
RowsHeld == LET n[c \in 0..2] == IF c = 0 THEN 0 ELSE n[c - 1] + Len(appended[c].rows) IN n[2]

IsNullRow(row) == \E j \in 1..Len(row) : ~row[j].valid

NullsHeld == Cardinality({ ci \in Colls \X (1..MaxRows) : ci[2] <= Len(appended[ci[1]].rows) /\ IsNullRow(appended[ci[1]].rows[ci[2]]) })

\* the batches a caller may pass to a collection: any size up to the vector
\* size, flat or through a selection, with an absent or a materialized mask
Batches(c) ==
    UNION { { MkBatch(colls[c].types, n, Len(appended[c].rows), mode, nullcol, nullpos) :
                mode \in {"flat", "dict"}, nullcol \in {0, Len(colls[c].types)},
                nullpos \in (IF NullsHeld < MaxNulls THEN 0..n ELSE {n}) } :
            n \in 0..MinValue(STANDARD_VECTOR_SIZE, MaxRows - RowsHeld) }

\* the same without null rows and without a selection
PlainBatches(c) ==
    { MkBatch(colls[c].types, n, Len(appended[c].rows), "flat", 0, 0) : n \in 0..MinValue(STANDARD_VECTOR_SIZE, MaxRows - RowsHeld) }

\* a batch of another schema
WrongBatches(c) == { MkBatch(types, 1, 0, "flat", 0, 0) : types \in TypeLists \ {colls[c].types} }

\* what Append(state, input) (lines 337-373) does to collection c, which is
\* in state coll when the call begins
AppendOutcome(op, c, coll, input) ==
    IF ~D_ASSERT(~coll.finished_append) \/ ~D_ASSERT(coll.types = input.types)
    THEN /\ colls' = [colls EXCEPT ![c] = coll]
         /\ last' = Outcome(op, c, 0, TRUE)
         /\ UNCHANGED <<appended, crashed>>
    ELSE IF NullBack(coll)
    THEN /\ crashed' = TRUE
         /\ last' = Other
         /\ UNCHANGED <<colls, appended>>
    ELSE /\ colls' = [colls EXCEPT ![c] = AppendChunk(coll, input)]
         /\ appended' = [appended EXCEPT ![c].rows = @ \o LogicalRows(input)]
         /\ last' = Outcome(op, c, 0, FALSE)
         /\ UNCHANGED crashed

\* Append(state, input) with a state the caller initialized earlier: the
\* collection has a segment for the call to write to
DoAppendState(c, input) ==
    /\ Rest
    /\ ~crashed /\ colls[c].alive /\ colls[c].segments # <<>>
    /\ AppendOutcome("Append", c, colls[c], input)
    /\ UNCHANGED combines

\* Append(input) (lines 375-379): InitializeAppend, then Append
DoAppend(c, input) ==
    /\ Rest
    /\ ~crashed /\ colls[c].alive
    /\ IF ~D_ASSERT(~colls[c].finished_append)
       THEN /\ last' = Outcome("Append", c, 0, TRUE)
            /\ UNCHANGED <<colls, appended, crashed>>
       ELSE IF NullBack(colls[c])
       THEN /\ crashed' = TRUE
            /\ last' = Other
            /\ UNCHANGED <<colls, appended>>
       ELSE AppendOutcome("Append", c, InitializeAppend(colls[c]), input)
    /\ UNCHANGED combines

\* Combine(other) (lines 475-485); Verify does its work in a DEBUG build only
DoCombine(c, other) ==
    /\ Rest
    /\ ~crashed /\ c # other /\ colls[c].alive /\ colls[other].alive
    /\ IF CombineMismatch(colls[c], colls[other])
       THEN /\ last' = Outcome("Combine", c, other, TRUE)
            /\ UNCHANGED <<colls, appended, combines, crashed>>
       ELSE /\ combines < MaxCombines
            /\ colls' = [colls EXCEPT ![c] = Combine(colls[c], colls[other]), ![other] = CombineOther(colls[other])]
            /\ appended' = [appended EXCEPT ![c].rows = @ \o appended[other].rows, ![c].pure = FALSE,
                                            ![other].rows = <<>>, ![other].pure = FALSE]
            /\ combines' = combines + 1
            /\ \E debug \in BOOLEAN :
                 LET v == IF debug THEN Verify(Combine(colls[c], colls[other])) ELSE "ok"
                 IN /\ crashed' = (v = "crash")
                    /\ last' = Outcome("Combine", c, other, v = "fault")

\* Reset() (lines 511-514)
DoReset(c) ==
    /\ Rest
    /\ ~crashed /\ colls[c].alive
    /\ colls' = [colls EXCEPT ![c] = Reset(colls[c])]
    /\ appended' = [appended EXCEPT ![c].rows = <<>>, ![c].pure = TRUE]
    /\ last' = Other
    /\ UNCHANGED <<combines, crashed>>

(***************************************************************************)
(* Spec: construction, append and reset.                                   *)
(***************************************************************************)
Init == InitColl /\ MaskIdle /\ ParIdle /\ ScanIdle /\ NestIdle

NextAppend ==
    \/ \E c \in Colls : \E types \in Schemas(c) : Construct(c, types)
    \/ \E c \in Colls, other \in Colls : CopyConstruct(c, other)
    \/ \E c \in Colls : DoInitializeAppend(c)
    \/ \E c \in Colls : \E input \in Batches(c) \cup WrongBatches(c) : DoAppendState(c, input)
    \/ \E c \in Colls : \E input \in Batches(c) \cup WrongBatches(c) : DoAppend(c, input)
    \/ \E c \in Colls : DoReset(c)

Spec == Init /\ [][NextAppend]_vars

(***************************************************************************)
(* SpecCombine: construction, append and Combine, over plain batches.      *)
(***************************************************************************)
NextCombine ==
    \/ \E c \in Colls : \E types \in Schemas(c) : Construct(c, types)
    \/ \E c \in Colls, other \in Colls : CopyConstruct(c, other)
    \/ \E c \in Colls : DoInitializeAppend(c)
    \/ \E c \in Colls : \E input \in PlainBatches(c) \cup WrongBatches(c) : DoAppendState(c, input)
    \/ \E c \in Colls : \E input \in PlainBatches(c) \cup WrongBatches(c) : DoAppend(c, input)
    \/ \E c \in Colls, other \in Colls : DoCombine(c, other)

SpecCombine == Init /\ [][NextCombine]_vars

(***************************************************************************)
(* Properties of the collection engine.                                    *)
(***************************************************************************)
RECURSIVE SumChunkCounts(_, _)
SumChunkCounts(chunk_data, i) == IF i > Len(chunk_data) THEN 0 ELSE chunk_data[i].count + SumChunkCounts(chunk_data, i + 1)

\* C1: a sequential scan, from a fresh cursor, of a collection that was only
\* appended to returns the appended rows in append order: the same number of
\* rows and, row for row and column for column, the same null flag and, for
\* a non-null value, the same value
AppendScanRoundTrip ==
    \A c \in Colls :
        (colls[c].alive /\ appended[c].pure) =>
            LET r == ScanAll(colls[c])
                want == appended[c].rows
            IN /\ r.result = "false"
               /\ Len(r.rows) = Len(want)
               /\ colls[c].count = Len(want)
               /\ \A i \in 1..Len(want) : \A j \in 1..Len(colls[c].types) :
                    /\ r.rows[i][j].valid = want[i][j].valid
                    /\ want[i][j].valid => r.rows[i][j].val = want[i][j].val

\* C1 witness: a collection appended to past one chunk, holding a null row
\* and a string kept in the heap, scanned back in full
AppendScanRoundTripWitness ==
    \E c \in Colls :
        /\ colls[c].alive /\ appended[c].pure
        /\ Len(appended[c].rows) > STANDARD_VECTOR_SIZE
        /\ \E i \in 1..Len(appended[c].rows) : IsNullRow(appended[c].rows[i])
        /\ Len(colls[c].segments) = 1 /\ colls[c].segments[1].heap # <<>>
        /\ Len(ScanAll(colls[c]).chunks) = 2

\* C2: every chunk holds at most STANDARD_VECTOR_SIZE rows, the chunk counts
\* of a segment add up to the segment's count and the segment counts of a
\* collection add up to the collection's count
ChunkCapacityInvariant ==
    \A c \in Colls :
        colls[c].alive =>
            /\ \A si \in 1..Len(colls[c].segments) :
                 LET segment == colls[c].segments[si]
                 IN /\ \A ci \in 1..Len(segment.chunk_data) : segment.chunk_data[ci].count <= STANDARD_VECTOR_SIZE
                    /\ SumChunkCounts(segment.chunk_data, 1) = segment.count
            /\ SumSegmentCounts(colls[c].segments, 1) = colls[c].count

\* C2 witness: a segment of two chunks, the first one full
ChunkCapacityWitness ==
    \E c \in Colls :
        /\ colls[c].alive /\ Len(colls[c].segments) = 1
        /\ Len(colls[c].segments[1].chunk_data) = 2
        /\ colls[c].segments[1].chunk_data[1].count = STANDARD_VECTOR_SIZE
        /\ colls[c].count > STANDARD_VECTOR_SIZE

\* C3: a Combine of X with Y that completes leaves X with the sum of the two
\* row counts, and a fresh scan of X returns exactly that many rows: those X
\* had, in order, followed by those of Y, in order
CombineAppendsRows ==
    [][(last'.op = "Combine" /\ ~last'.fault) =>
          LET x == last'.c
              y == last'.o
              r == ScanAll(colls'[x])
          IN /\ colls'[x].count = colls[x].count + colls[y].count
             /\ r.result = "false"
             /\ Len(r.rows) = colls[x].count + colls[y].count
             /\ r.rows = appended[x].rows \o appended[y].rows]_vars

\* C4: after a Combine that completes, the argument reports 0 rows and its
\* segment list is empty
CombineEmptiesOther ==
    (last.op = "Combine" /\ ~last.fault) => (colls[last.o].count = 0 /\ colls[last.o].segments = <<>>)

\* C7: once a collection was constructed from S, every InitializeAppend and
\* every Append on S ends in a fault and leaves S as it was
FinishedRejectsAppend ==
    [][\A c \in Colls :
          (appended[c].moved /\ last'.c = c /\ last'.op \in {"InitializeAppend", "Append"}) =>
              (last'.fault /\ colls'[c] = colls[c])]_vars

\* C7 witness: an Append on a collection that holds rows and that another
\* collection was constructed from has ended in a fault
FinishedRejectsAppendWitness ==
    /\ last.op = "Append" /\ last.fault
    /\ appended[last.c].moved
    /\ colls[last.c].count > 0

\* C8: a Combine of two collections whose schemas differ ends in a fault and
\* leaves both collections as they were
CombineMismatchFaults ==
    [][(last'.op = "Combine" /\ colls[last'.c].types # colls[last'.o].types) =>
          (last'.fault /\ colls' = colls)]_vars

\* C8 witness: a Combine of two collections that hold rows has ended in a fault
CombineMismatchWitness ==
    /\ last.op = "Combine" /\ last.fault
    /\ colls[last.c].types # colls[last.o].types
    /\ colls[last.c].count > 0 /\ colls[last.o].count > 0

(***************************************************************************)
(* Validity masks as objects.  A mask holds validity_mask, a raw pointer   *)
(* to a validity_t array (0: nullptr, every row valid), and validity_data, *)
(* a shared pointer to the ValidityData buffer that owns an array (0:      *)
(* none).  arrays is the memory: each array with its words and whether it  *)
(* is still allocated; buffers gives each ValidityData's owned_data.       *)
(***************************************************************************)
MaskNames == {"A", "B", "R"}

NullMask == [validity_mask |-> 0, validity_data |-> 0]

\* the three variables as one value, for the operators below
Heap == [masks |-> masks, mem |-> arrays, bufs |-> buffers]

\* ValidityMask::AllValid
AllValid(H, m) == H.masks[m].validity_mask = 0

\* ValidityMask::GetData: the words behind the raw pointer
GetData(H, m) == H.mem[H.masks[m].validity_mask].words

\* ValidityMask::RowIsValid
RowIsValid(H, m, row) == IF H.masks[m].validity_mask = 0 THEN TRUE ELSE RowIsValidUnsafe(GetData(H, m), row)

\* ValidityMask::Initialize(const ValidityMask &other): share other's array
InitializeOther(H, m, other) == [H EXCEPT !.masks[m] = H.masks[other]]

\* ValidityMask::Initialize(idx_t count): a new ValidityData(count) of its own
InitializeCount(H, m, count) ==
    [H EXCEPT !.mem = Append(@, [live |-> TRUE, words |-> NewValidityData(count)]),
              !.bufs = Append(@, [owned_data |-> Len(H.mem) + 1]),
              !.masks[m] = [validity_mask |-> Len(H.mem) + 1, validity_data |-> Len(H.bufs) + 1]]

\* shared_ptr<ValidityData>: a buffer no mask refers to any more is
\* destroyed, and its array with it
Release(H) ==
    [H EXCEPT !.mem = [a \in 1..Len(H.mem) |->
        IF \E b \in 1..Len(H.bufs) : H.bufs[b].owned_data = a /\ \A m \in MaskNames : H.masks[m].validity_data # b
        THEN [H.mem[a] EXCEPT !.live = FALSE]
        ELSE H.mem[a]]]

\* validity_t operators on words; a shift by the word's width or more is
\* undefined in C++: the build either uses the count modulo the width or
\* gives 0
AndWord(a, b) == [i \in Bits |-> a[i] /\ b[i]]

OrWord(a, b) == [i \in Bits |-> a[i] \/ b[i]]

ZeroWord == [i \in Bits |-> FALSE]

ShiftRight(w, s, ub) ==
    IF s \in Bits THEN [i \in Bits |-> IF i + s \in Bits THEN w[i + s] ELSE FALSE]
    ELSE IF ub = "zero" THEN ZeroWord
    ELSE [i \in Bits |-> IF i + (s % BITS_PER_VALUE) \in Bits THEN w[i + (s % BITS_PER_VALUE)] ELSE FALSE]

ShiftLeft(w, s, ub) ==
    IF s \in Bits THEN [i \in Bits |-> IF i - s \in Bits THEN w[i - s] ELSE FALSE]
    ELSE IF ub = "zero" THEN ZeroWord
    ELSE [i \in Bits |-> IF i - (s % BITS_PER_VALUE) \in Bits THEN w[i - (s % BITS_PER_VALUE)] ELSE FALSE]

\* the merge of ValidityMask::Combine with | for &
CombineEntryOr(a, b) == OrWord(a, b)

\* line 46 of ValidityMask::Combine: one entry of the merge
CombineEntry(a, b) == AndWord(a, b)

\* Combine with the merge written into the array the mask already has
MaskCombineInPlace(H, self, other, count) ==
    IF AllValid(H, other) THEN H
    ELSE IF AllValid(H, self) THEN Release(InitializeOther(H, self, other))
    ELSE IF H.masks[self].validity_mask = H.masks[other].validity_mask THEN H
    ELSE LET data == GetData(H, self)
             other_data == GetData(H, other)
         IN [H EXCEPT !.mem[H.masks[self].validity_mask].words =
                [e \in 1..Len(data) |-> IF e <= EntryCount(count) THEN CombineEntry(data[e], other_data[e]) ELSE data[e]]]

\* ValidityMask::Combine(other, count) (lines 21-48)
MaskCombine(H, self, other, count) ==
    IF AllValid(H, other) THEN H
    ELSE IF AllValid(H, self) THEN Release(InitializeOther(H, self, other))
    ELSE IF H.masks[self].validity_mask = H.masks[other].validity_mask THEN H
    ELSE LET data == GetData(H, self)
             other_data == GetData(H, other)
             H1 == InitializeCount(H, self, count)
             result == H1.masks[self].validity_mask
         IN Release([H1 EXCEPT !.mem[result].words = [e \in 1..EntryCount(count) |-> CombineEntry(data[e], other_data[e])]])

\* Resize with the added entries left as the allocation gave them (here: 0)
MaskResizeNoFill(H, self, old_size, new_size) ==
    IF AllValid(H, self) THEN H
    ELSE LET validity_mask == GetData(H, self)
             old == H.masks[self].validity_mask
             new_owned_data == [e \in 1..EntryCount(new_size) |-> IF e <= EntryCount(old_size) THEN validity_mask[e] ELSE ZeroWord]
         IN [H EXCEPT !.mem = Append([@ EXCEPT ![H.bufs[H.masks[self].validity_data].owned_data].live = FALSE],
                                     [live |-> TRUE, words |-> new_owned_data]),
                      !.bufs[H.masks[self].validity_data].owned_data = Len(H.mem) + 1,
                      !.masks[self].validity_mask = Len(H.mem) + 1]

\* ValidityMask::Resize(old_size, new_size) (lines 66-80): a new array with
\* the old entries and MAX_ENTRY after them replaces owned_data inside the
\* ValidityData, which frees the array it owned; only this mask's pointer
\* is set to the new array
MaskResize(H, self, old_size, new_size) ==
    IF AllValid(H, self) THEN H
    ELSE LET validity_mask == GetData(H, self)
             old == H.masks[self].validity_mask
             new_owned_data == [e \in 1..EntryCount(new_size) |-> IF e <= EntryCount(old_size) THEN validity_mask[e] ELSE MAX_ENTRY]
         IN [H EXCEPT !.mem = Append([@ EXCEPT ![H.bufs[H.masks[self].validity_data].owned_data].live = FALSE],
                                     [live |-> TRUE, words |-> new_owned_data]),
                      !.bufs[H.masks[self].validity_data].owned_data = Len(H.mem) + 1,
                      !.masks[self].validity_mask = Len(H.mem) + 1]

\* lines 95-96 of ValidityMask::Slice
EntireUnits(offset) == offset \div BITS_PER_VALUE

SubUnits(offset) == offset - (EntireUnits(offset) % BITS_PER_VALUE)

\* ValidityMask::Slice(other, offset) (lines 82-120)
MaskSlice(H, self, other, offset, ub) ==
    IF AllValid(H, other) THEN Release([H EXCEPT !.masks[self] = NullMask])
    ELSE IF offset = 0 THEN Release(InitializeOther(H, self, other))
    ELSE LET other_mask == GetData(H, other)
             H1 == InitializeCount(H, self, STANDARD_VECTOR_SIZE)
             result == H1.masks[self].validity_mask
             entire_units == EntireUnits(offset)
             sub_units == SubUnits(offset)
             w0 == H1.mem[result].words
             w1 == IF entire_units > 0
                   THEN [e \in 1..STANDARD_ENTRY_COUNT |-> IF (e - 1) + entire_units < STANDARD_ENTRY_COUNT THEN other_mask[e + entire_units] ELSE w0[e]]
                   ELSE w0
             w2 == IF sub_units > 0
                   THEN [e \in 1..STANDARD_ENTRY_COUNT |->
                           IF e < STANDARD_ENTRY_COUNT
                           THEN OrWord(ShiftRight(other_mask[e], sub_units, ub), ShiftLeft(other_mask[e + 1], BITS_PER_VALUE - sub_units, ub))
                           ELSE ShiftRight(w1[e], sub_units, ub)]
                   ELSE w1
         IN Release([H1 EXCEPT !.mem[result].words = w2])

(***************************************************************************)
(* SpecMask: Combine and Slice applied to masks drawn from a bounded set.  *)
(*   mlast  the operation applied, its arguments, what every mask read at  *)
(*          every row before it, and the masks and the memory before it    *)
(***************************************************************************)
Rows == 0..(STANDARD_VECTOR_SIZE - 1)

\* the sets of at most MaxInvalid rows
InvalidSets == { S \in SUBSET Rows : Cardinality(S) <= MaxInvalid }

\* a mask materialized by Initialize(STANDARD_VECTOR_SIZE) and one SetInvalid
\* for every row of S
Materialized(H, m, S) ==
    LET H1 == InitializeCount(H, m, STANDARD_VECTOR_SIZE)
        a == H1.masks[m].validity_mask
    IN [H1 EXCEPT !.mem[a].words = [e \in 1..STANDARD_ENTRY_COUNT |-> [b \in Bits |-> ((e - 1) * BITS_PER_VALUE + b) \notin S]]]

EmptyHeap == [masks |-> [m \in MaskNames |-> NullMask], mem |-> <<>>, bufs |-> <<>>]

\* B is absent or materialized; A is absent, materialized or shares B's
\* array; R is absent or shares A's array
InitHeaps ==
    LET HB == {EmptyHeap} \cup { Materialized(EmptyHeap, "B", S) : S \in InvalidSets }
        HA == UNION { {H, InitializeOther(H, "A", "B")} \cup { Materialized(H, "A", S) : S \in InvalidSets } : H \in HB }
    IN UNION { {H, InitializeOther(H, "R", "A")} : H \in HA }

\* the rows that read invalid, mask by mask
Reads(H) == { mr \in MaskNames \X Rows : ~RowIsValid(H, mr[1], mr[2]) }

WasValid(m, row) == <<m, row>> \notin mlast.before

InitMask ==
    \E H \in InitHeaps :
        /\ masks = H.masks /\ arrays = H.mem /\ buffers = H.bufs
        /\ mlast = [op |-> "none", self |-> "A", other |-> "A", arg |-> 0, before |-> Reads(H), prev |-> H, old_size |-> 0]

CollIdle == colls = <<>> /\ appended = <<>> /\ combines = 0 /\ last = <<>> /\ crashed = FALSE

\* the words a call reads lie within the array behind each mask
Covers(H, m, count) == IF AllValid(H, m) THEN TRUE ELSE H.mem[H.masks[m].validity_mask].live /\ Len(GetData(H, m)) >= EntryCount(count)

DoMaskCombine(self, other, count) ==
    /\ mlast.op = "none" /\ self # other
    /\ Covers(Heap, self, count) /\ Covers(Heap, other, count)
    /\ LET H == MaskCombine(Heap, self, other, count)
       IN masks' = H.masks /\ arrays' = H.mem /\ buffers' = H.bufs
    /\ mlast' = [op |-> "Combine", self |-> self, other |-> other, arg |-> count, before |-> Reads(Heap), prev |-> Heap, old_size |-> 0]
    /\ UNCHANGED <<collVars, parVars, scanVars, nestVars>>

DoMaskSlice(self, other, offset) ==
    /\ mlast.op = "none" /\ self # other
    /\ Covers(Heap, other, STANDARD_VECTOR_SIZE)
    /\ \E ub \in {"wrap", "zero"} :
         LET H == MaskSlice(Heap, self, other, offset, ub)
         IN masks' = H.masks /\ arrays' = H.mem /\ buffers' = H.bufs
    /\ mlast' = [op |-> "Slice", self |-> self, other |-> other, arg |-> offset, before |-> Reads(Heap), prev |-> Heap, old_size |-> 0]
    /\ UNCHANGED <<collVars, parVars, scanVars, nestVars>>

\* the sizes a mask is resized to
NewSizes == 0..(STANDARD_VECTOR_SIZE + 2 * BITS_PER_VALUE)

\* the mask is over old_size rows: its array has the entries of old_size
\* rows and no row from old_size on has been set invalid
IsOver(H, m, old_size) ==
    IF AllValid(H, m) THEN TRUE
    ELSE /\ H.mem[H.masks[m].validity_mask].live
         /\ Len(GetData(H, m)) >= EntryCount(old_size)
         /\ \A row \in Rows : row >= old_size => RowIsValid(H, m, row)

DoMaskResize(self, old_size, new_size) ==
    /\ mlast.op = "none" /\ new_size >= old_size
    /\ IsOver(Heap, self, old_size)
    /\ LET H == MaskResize(Heap, self, old_size, new_size)
       IN masks' = H.masks /\ arrays' = H.mem /\ buffers' = H.bufs
    /\ mlast' = [op |-> "Resize", self |-> self, other |-> self, arg |-> new_size, before |-> Reads(Heap), prev |-> Heap, old_size |-> old_size]
    /\ UNCHANGED <<collVars, parVars, scanVars, nestVars>>

NextMask ==
    \/ \E self \in MaskNames, other \in MaskNames, count \in 0..STANDARD_VECTOR_SIZE : DoMaskCombine(self, other, count)
    \/ \E self \in MaskNames, other \in MaskNames, offset \in Rows : DoMaskSlice(self, other, offset)
    \/ \E self \in MaskNames, old_size \in 0..STANDARD_VECTOR_SIZE, new_size \in NewSizes : DoMaskResize(self, old_size, new_size)

MaskInit == InitMask /\ CollIdle /\ ParIdle /\ ScanIdle /\ NestIdle

SpecMask == MaskInit /\ [][NextMask]_vars

\* C9: after R.Slice(A, k), row i of R reads what row i + k of A read, for
\* every i with i + k below STANDARD_VECTOR_SIZE
SliceShiftsRows ==
    mlast.op = "Slice" =>
        \A i \in Rows : (i + mlast.arg) \in Rows => RowIsValid(Heap, mlast.self, i) = WasValid(mlast.other, i + mlast.arg)

\* C10: after A.Combine(B, count), every row below count reads valid from A
\* exactly when it read valid from A before and reads valid from B
CombineIsAnd ==
    mlast.op = "Combine" =>
        \A i \in Rows : i < mlast.arg =>
            RowIsValid(Heap, mlast.self, i) = (WasValid(mlast.self, i) /\ WasValid(mlast.other, i))

\* C10 witness: a merge of two materialized masks with different arrays, each
\* with an invalid row the other has valid, over all rows
CombineIsAndWitness ==
    /\ mlast.op = "Combine" /\ mlast.arg = STANDARD_VECTOR_SIZE
    /\ \E i \in Rows : ~WasValid(mlast.self, i) /\ WasValid(mlast.other, i)
    /\ \E i \in Rows : WasValid(mlast.self, i) /\ ~WasValid(mlast.other, i)
    /\ masks[mlast.self].validity_mask # masks[mlast.other].validity_mask
    /\ \A i \in Rows : RowIsValid(Heap, mlast.self, i) = (WasValid(mlast.self, i) /\ WasValid(mlast.other, i))

\* the masks other than the one the operation was called on
Bystanders == MaskNames \ {mlast.self}

\* C11: after A.Combine(B, count) or R.Slice(B, offset) every other mask,
\* B included, points where it pointed, its array is still allocated and it
\* reads what it read; no array that existed before has changed; and the
\* mask the call was made on is in the sentinel state, or kept its array, or
\* adopted B's array, or has a new array that no other mask points to
MaskFrame ==
    mlast.op \in {"Combine", "Slice"} =>
        /\ \A m \in Bystanders :
              /\ masks[m] = mlast.prev.masks[m]
              /\ masks[m].validity_mask # 0 => arrays[masks[m].validity_mask].live
              /\ \A row \in Rows : RowIsValid(Heap, m, row) = WasValid(m, row)
        /\ \A a \in 1..Len(mlast.prev.mem) : arrays[a].words = mlast.prev.mem[a].words
        /\ LET p == masks[mlast.self].validity_mask
           IN \/ p = 0
              \/ p = mlast.prev.masks[mlast.self].validity_mask
              \/ p = mlast.prev.masks[mlast.other].validity_mask
              \/ p > Len(mlast.prev.mem) /\ \A m \in Bystanders : masks[m].validity_mask # p

\* C11 witness: a Combine over all rows that merged, on a mask whose previous array a third
\* mask shares, with a result that differs from the previous contents
MaskFrameWitness ==
    /\ mlast.op = "Combine" /\ mlast.arg = STANDARD_VECTOR_SIZE
    /\ masks[mlast.self].validity_mask > Len(mlast.prev.mem)
    /\ \E m \in Bystanders \ {mlast.other} : masks[m].validity_mask = mlast.prev.masks[mlast.self].validity_mask
    /\ \E row \in Rows : WasValid(mlast.self, row) /\ ~RowIsValid(Heap, mlast.self, row)
    /\ \A m \in Bystanders : \A row \in Rows : RowIsValid(Heap, m, row) = WasValid(m, row)

ResizeRespectsSharing ==
    (mlast.op = "Resize" /\ mlast.prev.masks[mlast.self].validity_mask # 0) =>
        \A m \in Bystanders :
            mlast.prev.masks[m].validity_mask = mlast.prev.masks[mlast.self].validity_mask =>
                /\ masks[m] = mlast.prev.masks[m]
                /\ masks[m].validity_mask # masks[mlast.self].validity_mask
                /\ arrays[masks[m].validity_mask].live
                /\ \A row \in Rows : RowIsValid(Heap, m, row) = WasValid(m, row)

(***************************************************************************)
(* SpecPar: the parallel Scan (lines 396-414).  NumWorkers workers call it *)
(* in a loop, until it returns false, on one ColumnDataParallelScanState   *)
(* over one collection that nobody appends to.                             *)
(*   pcoll     the collection                                              *)
(*   pscan     state.scan_state, the shared cursor                         *)
(*   plock     state.lock: 0 when free, else the worker that holds it      *)
(*   pc        where each worker is inside Scan                            *)
(*   plocal    each worker's locals: the cursor as NextScanIndex read it,  *)
(*             its result and chunk_index, segment_index, row_index        *)
(*   handed    the (segment, chunk) pairs in the order NextScanIndex       *)
(*             returned them, with the worker                              *)
(*   produced  per worker, the chunks ReadChunk gave it with their         *)
(*             row_index, in the order received                            *)
(***************************************************************************)
Workers == 1..NumWorkers

ParTypes == <<"INT32", "VARCHAR">>

\* Append(input) on a collection outside the state machine: InitializeAppend,
\* then Append(state, input), with a batch of n rows
Appended(coll, n) == AppendChunk(InitializeAppend(coll), MkBatch(coll.types, n, coll.count, "flat", 0, 0))

\* collections as appends leave them: never appended to, after
\* InitializeAppend alone, with one row, with a full chunk and one row more
ParAppended ==
    { NewCollection(ParTypes),
      InitializeAppend(NewCollection(ParTypes)),
      Appended(NewCollection(ParTypes), 1),
      Appended(Appended(NewCollection(ParTypes), STANDARD_VECTOR_SIZE), 1) }

\* and as one Combine leaves the receiver
ParCollections == ParAppended \cup { Combine(x, y) : x \in ParAppended, y \in ParAppended }

NoLocal == [seen |-> InitializeScan, result |-> "none", chunk_index |-> 0, segment_index |-> 0, row_index |-> 0]

\* InitializeScan(ColumnDataParallelScanState &) has run; no worker has
\* called Scan yet
InitPar ==
    /\ pcoll \in ParCollections
    /\ pscan = InitializeScan
    /\ plock = 0
    /\ pc = [w \in Workers |-> "start"]
    /\ plocal = [w \in Workers |-> NoLocal]
    /\ handed = <<>>
    /\ produced = [w \in Workers |-> <<>>]

Idle == UNCHANGED <<collVars, maskVars, scanVars, nestVars, pcoll>>

\* lock_guard taking the mutex whether or not it is free
ParScanLockNoWait(w) ==
    /\ pc[w] = "start"
    /\ plock' = w
    /\ pc' = [pc EXCEPT ![w] = "locked"]
    /\ Idle /\ UNCHANGED <<pscan, plocal, handed, produced>>

\* line 404: lock_guard<mutex> l(state.lock) waits for the mutex and takes it
ParScanLock(w) ==
    /\ pc[w] = "start" /\ plock = 0
    /\ plock' = w
    /\ pc' = [pc EXCEPT ![w] = "locked"]
    /\ Idle /\ UNCHANGED <<pscan, plocal, handed, produced>>

\* line 405: NextScanIndex reads the shared cursor
ParScanReadCursor(w) ==
    /\ pc[w] = "locked"
    /\ plocal' = [plocal EXCEPT ![w].seen = pscan]
    /\ pc' = [pc EXCEPT ![w] = "advance"]
    /\ Idle /\ UNCHANGED <<pscan, plock, handed, produced>>

\* line 405: NextScanIndex writes the cursor back and sets the worker's
\* chunk_index, segment_index and row_index
ParScanAdvance(w) ==
    /\ pc[w] = "advance"
    /\ LET n == NextScanIndex(plocal[w].seen, pcoll.segments)
       IN /\ pscan' = n.state
          /\ plocal' = [plocal EXCEPT ![w] = [seen |-> plocal[w].seen, result |-> n.result, chunk_index |-> n.chunk_index,
                                               segment_index |-> n.segment_index, row_index |-> n.row_index]]
          /\ handed' = IF n.result = "true" THEN Append(handed, [segment_index |-> n.segment_index, chunk_index |-> n.chunk_index, worker |-> w]) ELSE handed
          /\ pc' = [pc EXCEPT ![w] = IF n.result = "crash" THEN "crashed" ELSE "unlock"]
    /\ Idle /\ UNCHANGED <<plock, produced>>

\* the end of the lock_guard's scope, with the mutex kept
ParScanUnlockKeepsLock(w) ==
    /\ pc[w] = "unlock"
    /\ pc' = [pc EXCEPT ![w] = IF plocal[w].result = "true" THEN "read" ELSE "done"]
    /\ Idle /\ UNCHANGED <<plock, pscan, plocal, handed, produced>>

\* a scope that releases the mutex at the closing brace only, not on return false
ParScanUnlockOnTrueOnly(w) ==
    /\ pc[w] = "unlock"
    /\ plock' = IF plocal[w].result = "true" THEN 0 ELSE plock
    /\ pc' = [pc EXCEPT ![w] = IF plocal[w].result = "true" THEN "read" ELSE "done"]
    /\ Idle /\ UNCHANGED <<pscan, plocal, handed, produced>>

\* lines 406-408: the lock_guard goes out of scope, on return false and at
\* the closing brace, and releases the mutex
ParScanUnlock(w) ==
    /\ pc[w] = "unlock"
    /\ plock' = 0
    /\ pc' = [pc EXCEPT ![w] = IF plocal[w].result = "true" THEN "read" ELSE "done"]
    /\ Idle /\ UNCHANGED <<pscan, plocal, handed, produced>>

\* lines 409-413: ReadChunk into the worker's result, return true; the
\* worker's loop calls Scan again
ParScanReadChunk(w) ==
    /\ pc[w] = "read"
    /\ produced' = [produced EXCEPT ![w] = Append(@, [row_index |-> plocal[w].row_index,
                                                       rows |-> ReadChunk(pcoll.segments[plocal[w].segment_index + 1], plocal[w].chunk_index)])]
    /\ pc' = [pc EXCEPT ![w] = "start"]
    /\ Idle /\ UNCHANGED <<pscan, plock, plocal, handed>>

NextPar ==
    \/ \E w \in Workers : ParScanLock(w)
    \/ \E w \in Workers : ParScanReadCursor(w)
    \/ \E w \in Workers : ParScanAdvance(w)
    \/ \E w \in Workers : ParScanUnlock(w)
    \/ \E w \in Workers : ParScanReadChunk(w)

ParInit == InitPar /\ CollIdle /\ MaskIdle /\ ScanIdle /\ NestIdle

SpecPar == ParInit /\ [][NextPar]_vars

\* one step of worker w: of its Scan call, or of its loop calling Scan again
WorkerStep(w) ==
    \/ ParScanLock(w)
    \/ ParScanReadCursor(w)
    \/ ParScanAdvance(w)
    \/ ParScanUnlock(w)
    \/ ParScanReadChunk(w)

\* every worker thread is scheduled, and a mutex that stays free is taken
\* by a worker that waits for it
ParFairness == \A w \in Workers : WF_vars(WorkerStep(w))

SpecParFair == ParInit /\ [][NextPar]_vars /\ ParFairness

\* the (segment, chunk) pairs of the collection
ParPairs == { p \in (0..Len(pcoll.segments)) \X (0..STANDARD_VECTOR_SIZE) :
                p[1] < Len(pcoll.segments) /\ p[2] < Len(pcoll.segments[p[1] + 1].chunk_data) }

HandedPairs == { <<handed[i].segment_index, handed[i].chunk_index>> : i \in 1..Len(handed) }

AllDone == \A w \in Workers : pc[w] = "done"

RECURSIVE RowsIn(_, _)
RowsIn(entries, i) == IF i > Len(entries) THEN 0 ELSE Len(entries[i].rows) + RowsIn(entries, i + 1)

RECURSIVE RowsProduced(_)
RowsProduced(w) == IF w > NumWorkers THEN 0 ELSE RowsIn(produced[w], 1) + RowsProduced(w + 1)

\* C5: no (segment, chunk) pair is handed out twice, only pairs of the
\* collection are handed out, and once every worker has received false every
\* pair has been handed out and the workers' chunks, each placed at its
\* row_index, are the rows of the collection, each row once
ParallelScanCoverage ==
    /\ \A i \in 1..Len(handed) : \A j \in 1..Len(handed) :
          (handed[i].segment_index = handed[j].segment_index /\ handed[i].chunk_index = handed[j].chunk_index) => i = j
    /\ HandedPairs \subseteq ParPairs
    /\ AllDone =>
          LET full == ScanAll(pcoll).rows
          IN /\ HandedPairs = ParPairs
             /\ RowsProduced(1) = Len(full)
             /\ pcoll.count = Len(full)
             /\ \A r \in 1..Len(full) : \E w \in Workers : \E i \in 1..Len(produced[w]) :
                   LET e == produced[w][i]
                   IN (r - e.row_index) \in 1..Len(e.rows) /\ e.rows[r - e.row_index] = full[r]

\* C5 witness: a collection of two segments and three chunks scanned to the
\* end, with chunks handed to both workers
ParallelScanCoverageWitness ==
    /\ AllDone
    /\ Len(pcoll.segments) = 2 /\ Len(handed) >= 3
    /\ HandedPairs = ParPairs
    /\ \E i \in 1..Len(handed) : \E j \in 1..Len(handed) : handed[i].worker # handed[j].worker
    /\ RowsProduced(1) = pcoll.count

InsideLock(w) == pc[w] \in {"locked", "advance", "unlock"}

LockDiscipline ==
    /\ \A w \in Workers : InsideLock(w) <=> plock = w
    /\ \A w \in Workers : \A v \in Workers : (InsideLock(w) /\ InsideLock(v)) => w = v

\* C6: a worker holds the lock exactly from lock_guard's construction to the
\* end of its scope, so never while it is in ReadChunk, and at most one
\* worker is inside; a step that reads the shared cursor or writes it is a
\* step of the worker that holds the lock
LockOnlyForCursor ==
    [][/\ LockDiscipline /\ LockDiscipline'
       /\ \A w \in Workers : plocal'[w].seen # plocal[w].seen => plock = w
       /\ pscan' # pscan => \E w \in Workers : plock = w /\ pc[w] = "advance"
       /\ \A w \in Workers : (pc[w] = "locked" /\ pc'[w] = "advance") => plock = w]_vars

\* C6 witness: one worker is in ReadChunk, without the lock, while another
\* holds the lock and advances the cursor
LockOnlyForCursorWitness ==
    \E w \in Workers : \E v \in Workers :
        /\ pc[w] = "read" /\ plock # w
        /\ pc[v] = "advance" /\ plock = v

\* the chunks of the collection, over all its segments
RECURSIVE ParChunks(_)
ParChunks(i) == IF i > Len(pcoll.segments) THEN 0 ELSE Len(pcoll.segments[i].chunk_data) + ParChunks(i + 1)

\* the Scan calls that have returned true, over all workers
RECURSIVE TrueResults(_)
TrueResults(w) == IF w > NumWorkers THEN 0 ELSE Len(produced[w]) + TrueResults(w + 1)

\* C22: under weak fairness of every worker, eventually every worker has
\* received false; a worker outside the locked block of Scan, on the true
\* path (in ReadChunk or back in its loop) or on the false path, does not
\* hold the lock; and when all have received false, the lock is free and
\* the Scan calls that returned true are as many as the collection's chunks
ParallelScanTerminates ==
    /\ <>[]AllDone
    /\ [](\A w \in Workers : pc[w] \in {"start", "read", "done"} => plock # w)
    /\ [](AllDone => (plock = 0 /\ TrueResults(1) = ParChunks(1)))

\* C22 witness: every worker has received false after a scan of at least
\* three chunks in which every worker received a chunk, and the lock is free
ParallelScanTerminatesWitness ==
    /\ AllDone /\ plock = 0
    /\ ParChunks(1) >= 3
    /\ TrueResults(1) = ParChunks(1)
    /\ \A w \in Workers : produced[w] # <<>>

\* C20: a Scan call that returns true delivers at least one row; a
\* collection that reports 0 rows gives false on the first Scan call of a
\* fresh cursor
ScanTrueHasRows ==
    \A c \in Colls : colls[c].alive =>
        LET n == NextScanIndex(InitializeScan, colls[c].segments)
            r == ScanAll(colls[c])
        IN /\ colls[c].count = 0 => n.result = "false"
           /\ \A i \in 1..Len(r.chunks) :
                 colls[c].segments[r.chunks[i][1] + 1].chunk_data[r.chunks[i][2] + 1].count >= 1

RECURSIVE CountChunks(_, _)
CountChunks(segments, i) == IF i > Len(segments) THEN 0 ELSE Len(segments[i].chunk_data) + CountChunks(segments, i + 1)

AllButLastFull(coll) ==
    \A si \in 1..Len(coll.segments) : \A ci \in 1..(Len(coll.segments[si].chunk_data) - 1) :
        coll.segments[si].chunk_data[ci].count = STANDARD_VECTOR_SIZE

\* C18: within every segment every chunk except the last holds exactly
\* STANDARD_VECTOR_SIZE rows, and one call (a batch has at most
\* STANDARD_VECTOR_SIZE rows) adds at most one chunk to a collection
ChunkOnlyWhenFull ==
    [][\A c \in Colls :
          /\ colls[c].alive => AllButLastFull(colls[c])
          /\ colls'[c].alive => AllButLastFull(colls'[c])
          /\ (colls[c].alive /\ colls'[c].alive) =>
                CountChunks(colls'[c].segments, 1) <= CountChunks(colls[c].segments, 1) + 1]_vars

\* C18 witness: after an append, a segment whose first chunk is full and
\* whose second, new chunk is partly filled
ChunkOnlyWhenFullWitness ==
    \E c \in Colls :
        /\ colls[c].alive /\ last.op = "Append" /\ last.c = c /\ ~last.fault
        /\ Len(colls[c].segments) = 1 /\ Len(colls[c].segments[1].chunk_data) = 2
        /\ colls[c].segments[1].chunk_data[1].count = STANDARD_VECTOR_SIZE
        /\ colls[c].segments[1].chunk_data[2].count \in 1..(STANDARD_VECTOR_SIZE - 1)

(***************************************************************************)
(* SpecAll: construction, append, combine and reset of collections of one  *)
(* schema.                                                                 *)
(***************************************************************************)
NextAll ==
    \/ \E c \in Colls : Construct(c, <<"INT32", "VARCHAR">>)
    \/ \E c \in Colls : \E input \in PlainBatches(c) : DoAppend(c, input)
    \/ \E c \in Colls : \E other \in Colls : DoCombine(c, other)
    \/ \E c \in Colls : DoReset(c)

SpecAll == Init /\ [][NextAll]_vars

\* C14: in every collection the row counts of the segments it owns add up to
\* the collection's row count
SegmentCountsAddUp ==
    \A c \in Colls : colls[c].alive => SumSegmentCounts(colls[c].segments, 1) = colls[c].count

(***************************************************************************)
(* SpecScan: sequential Scan calls (lines 444-459) by two cursors over one *)
(* collection that is not modified, and InitializeScan on a used cursor.   *)
(*   scoll     the collection                                              *)
(*   cursors   each cursor's ColumnDataScanState                           *)
(*   slog      per cursor, what each Scan call since the last              *)
(*             InitializeScan returned                                     *)
(*   restarts  per cursor, the InitializeScan calls on the used cursor     *)
(***************************************************************************)
Cursors == {1, 2}

\* what one Scan call gives its caller: the result and, when true, the
\* chunk, where it came from and the cursor's current_row_index
ScanResult(n, segments) ==
    IF n.result = "true"
    THEN [result |-> "true", segment_index |-> n.segment_index, chunk_index |-> n.chunk_index,
          row_index |-> n.state.current_row_index, rows |-> ReadChunk(segments[n.segment_index + 1], n.chunk_index)]
    ELSE [result |-> n.result, segment_index |-> 0, chunk_index |-> 0, row_index |-> 0, rows |-> <<>>]

InitScan ==
    /\ scoll \in ParCollections
    /\ cursors = [k \in Cursors |-> InitializeScan]
    /\ slog = [k \in Cursors |-> <<>>]
    /\ restarts = [k \in Cursors |-> 0]

\* the Scan calls in slog[k] that returned false
FalseResults(k) == Cardinality({ i \in 1..Len(slog[k]) : slog[k][i].result = "false" })

\* Scan(state, result) (lines 444-459)
DoScan(k) ==
    /\ FalseResults(k) < MaxFalse
    /\ LET n == NextScanIndex(cursors[k], scoll.segments)
       IN /\ cursors' = [cursors EXCEPT ![k] = n.state]
          /\ slog' = [slog EXCEPT ![k] = Append(@, ScanResult(n, scoll.segments))]
    /\ UNCHANGED <<collVars, maskVars, parVars, nestVars, scoll, restarts>>

\* InitializeScan(state) (lines 384-390) on a cursor in any state
DoInitializeScan(k) ==
    /\ restarts[k] < MaxRestarts
    /\ cursors' = [cursors EXCEPT ![k] = InitializeScanState(@)]
    /\ slog' = [slog EXCEPT ![k] = <<>>]
    /\ restarts' = [restarts EXCEPT ![k] = @ + 1]
    /\ UNCHANGED <<collVars, maskVars, parVars, nestVars, scoll>>

NextScan ==
    \/ \E k \in Cursors : DoScan(k)
    \/ \E k \in Cursors : DoInitializeScan(k)

ScanInit == InitScan /\ CollIdle /\ MaskIdle /\ ParIdle /\ NestIdle

SpecScan == ScanInit /\ [][NextScan]_vars

\* the (segment, chunk) pairs of the collection from segment s on, by
\* increasing segment and, within a segment, increasing chunk
RECURSIVE ChunksInOrder(_, _)
ChunksInOrder(segments, s) ==
    IF s > Len(segments) THEN <<>>
    ELSE [c \in 1..Len(segments[s].chunk_data) |-> <<s - 1, c - 1>>] \o ChunksInOrder(segments, s + 1)

\* C13: on a cursor that was initialized once, the i-th Scan call returns
\* true with the i-th chunk in segment order and chunk order when there is
\* one, and false when there is none: one true per chunk, then only false
SequentialScanOrder ==
    \A k \in Cursors : restarts[k] = 0 =>
        LET want == ChunksInOrder(scoll.segments, 1)
        IN \A i \in 1..Len(slog[k]) :
              IF i <= Len(want)
              THEN /\ slog[k][i].result = "true"
                   /\ <<slog[k][i].segment_index, slog[k][i].chunk_index>> = want[i]
              ELSE slog[k][i].result = "false"

\* C13 witness: a cursor over two segments and three chunks that got three
\* chunks and then false twice
SequentialScanOrderWitness ==
    \E k \in Cursors :
        /\ restarts[k] = 0
        /\ Len(scoll.segments) = 2 /\ Len(ChunksInOrder(scoll.segments, 1)) = 3
        /\ Len(slog[k]) = 5
        /\ slog[k][3].result = "true" /\ slog[k][3].segment_index = 1
        /\ slog[k][4].result = "false" /\ slog[k][5].result = "false"

\* the first n results of a scan with a brand-new cursor
RECURSIVE FreshScan(_, _, _)
FreshScan(state, segments, n) ==
    IF n = 0 THEN <<>>
    ELSE LET r == NextScanIndex(state, segments)
         IN <<ScanResult(r, segments)>> \o FreshScan(r.state, segments, n - 1)

\* C19: after InitializeScan on a used cursor the Scan calls return what a
\* brand-new cursor's calls return: the same chunks, from the same places,
\* with the same row indexes, then false; and a step of one cursor changes
\* nothing of the other
ScanRestartable ==
    [][/\ \A k \in Cursors : restarts'[k] > 0 => slog'[k] = FreshScan(InitializeScan, scoll'.segments, Len(slog'[k]))
       /\ \A k \in Cursors : (cursors'[k] # cursors[k] \/ slog'[k] # slog[k]) =>
             \A j \in Cursors \ {k} : cursors'[j] = cursors[j] /\ slog'[j] = slog[j]]_vars

\* C19 witness: a cursor re-initialized after it was exhausted, and the
\* other one while partly consumed, both scanned to the end again
ScanRestartableWitness ==
    /\ Len(ChunksInOrder(scoll.segments, 1)) >= 3
    /\ \A k \in Cursors : restarts[k] = 1 /\ Len(slog[k]) = Len(ChunksInOrder(scoll.segments, 1)) + 1
    /\ \A k \in Cursors : slog[k] = FreshScan(InitializeScan, scoll.segments, Len(slog[k]))
    /\ slog[1][Len(slog[1])].result = "false"

(***************************************************************************)
(* Nested columns.  A segment keeps its Vector Metadata slots in one       *)
(* table, vector_data; a slot has a type, a running count, the values and  *)
(* validity written so far, child_index (0: invalid) into the table        *)
(* child_indices, and next_data (0: invalid), the next slot of its chain.  *)
(* A list's child values live in the chain that starts at its child slot;  *)
(* a struct has one child slot per field.                                  *)
(*   nseg   the segment: types, count, vector_data, child_indices,         *)
(*          chunk_data and, for the last Append, calls: what each          *)
(*          ColumnDataCopy<list_entry_t> call added as offset, with the    *)
(*          number of child values in the chain when it began              *)
(*   nlog   the logical rows appended, in order                            *)
(***************************************************************************)
IntType == [k |-> "INT32"]

ListType(child) == [k |-> "LIST", child |-> child]

StructType(children) == [k |-> "STRUCT", children |-> children]

\* ColumnDataCollectionSegment::AllocateVector: a new slot at the end of the table
AllocateVector(seg, type) ==
    [seg EXCEPT !.vector_data = Append(@, [type |-> type, count |-> 0, data |-> <<>>, valid |-> <<>>, child_index |-> 0, next_data |-> 0])]

\* the index AllocateVector returned
Allocated(seg) == Len(seg.vector_data)

\* ColumnDataCollectionSegment::AddChildIndex / ReserveChildren / SetChildIndex / GetChildIndex
AddChildIndex(seg, index) == [seg EXCEPT !.child_indices = Append(@, index)]

ReserveChildren(seg, child_count) == [seg EXCEPT !.child_indices = @ \o [j \in 1..child_count |-> 0]]

SetChildIndex(seg, base_index, child_number, index) == [seg EXCEPT !.child_indices[base_index + child_number] = index]

GetChildIndex(seg, index, child_number) == seg.child_indices[index + child_number]

\* the value an unwritten position of a slot holds
Unwritten(type) == IF type.k = "INT32" THEN Garbage ELSE [offset |-> Garbage, length |-> 0]

\* a ListValueCopy that leaves the offset as it is in the source
ListValueCopyNoOffset(child_list_size, input) == input

\* StandardValueCopy and ListValueCopy (lines 121-126, 135-141) on one value
ListValueCopy(child_list_size, input) == [input EXCEPT !.offset = @ + child_list_size]

\* TemplatedColumnDataCopy (lines 143-162) on slot index of the table: the
\* validity of the copied rows, the values of the valid ones, the count
NestedTemplatedCopy(seg, index, source, source_offset, copy_count, child_list_size) ==
    LET vector_data == seg.vector_data[index]
        src(i) == source.sel[source_offset + i] + 1
        value(i) == IF ~source.valid[src(i)] THEN Unwritten(vector_data.type)
                    ELSE IF vector_data.type.k = "LIST" THEN ListValueCopy(child_list_size, source.data[src(i)])
                    ELSE source.data[src(i)]
    IN [seg EXCEPT !.vector_data[index].valid = @ \o [i \in 1..copy_count |-> source.valid[src(i)]],
                   !.vector_data[index].data = @ \o [i \in 1..copy_count |-> value(i)],
                   !.vector_data[index].count = @ + copy_count]

\* the number of values in the chain that starts at slot index
RECURSIVE ChainCount(_, _)
ChainCount(seg, index) == IF index = 0 THEN 0 ELSE seg.vector_data[index].count + ChainCount(seg, seg.vector_data[index].next_data)

RECURSIVE CopyFunction(_, _, _, _, _)
RECURSIVE ListChildLoop(_, _, _, _, _, _)
RECURSIVE StructChildLoop(_, _, _, _, _, _)
RECURSIVE ListChildLoopOverfill(_, _, _, _, _, _)

\* a loop that writes all the remaining child values into the current slot
ListChildLoopOverfill(seg, child_vector, child_index, remaining, current_list_size, child_list_size) ==
    IF remaining = 0
    THEN [seg |-> seg, current_list_size |-> current_list_size]
    ELSE LET size1 == current_list_size + seg.vector_data[child_index].count
         IN ListChildLoopOverfill(CopyFunction(seg, child_index, child_vector, child_list_size - remaining, remaining),
                                  child_vector, child_index, 0, size1, child_list_size)

\* the while loop of ColumnDataCopy<list_entry_t> (lines 197-215): the
\* segment and current_list_size when it ends
ListChildLoop(seg, child_vector, child_index, remaining, current_list_size, child_list_size) ==
    IF remaining = 0
    THEN [seg |-> seg, current_list_size |-> current_list_size]
    ELSE LET size1 == current_list_size + seg.vector_data[child_index].count
             child_append_count == MinValue(STANDARD_VECTOR_SIZE - seg.vector_data[child_index].count, remaining)
             seg1 == IF child_append_count > 0
                     THEN CopyFunction(seg, child_index, child_vector, child_list_size - remaining, child_append_count)
                     ELSE seg
             remaining1 == remaining - child_append_count
             seg2 == IF remaining1 > 0 /\ seg1.vector_data[child_index].next_data = 0
                     THEN [AllocateVector(seg1, child_vector.type) EXCEPT !.vector_data[child_index].next_data = Len(seg1.vector_data) + 1]
                     ELSE seg1
             next == IF remaining1 > 0 THEN seg2.vector_data[child_index].next_data ELSE child_index
         IN ListChildLoop(seg2, child_vector, next, remaining1, size1, child_list_size)

\* ColumnDataCopy<list_entry_t> (lines 176-219)
ColumnDataCopyList(seg, index, source, source_offset, copy_count) ==
    LET child_vector == source.child
        child_list_size == source.list_size
        seg1 == IF seg.vector_data[index].child_index = 0
                THEN LET a == AllocateVector(seg, child_vector.type)
                     IN [AddChildIndex(a, Allocated(a)) EXCEPT !.vector_data[index].child_index = Len(a.child_indices) + 1]
                ELSE seg
        child_index == GetChildIndex(seg1, seg1.vector_data[index].child_index, 0)
        loop == ListChildLoop(seg1, child_vector, child_index, child_list_size, 0, child_list_size)
        call == [index |-> index, added |-> loop.current_list_size, resident |-> ChainCount(seg1, child_index),
                 child_list_size |-> child_list_size, copied |-> copy_count]
    IN NestedTemplatedCopy([loop.seg EXCEPT !.calls = @ \cup {call}], index, source, source_offset, copy_count, loop.current_list_size)

\* the loop over the children of ColumnDataCopyStruct (lines 247-256)
StructChildLoop(seg, index, source, source_offset, copy_count, child_idx) ==
    IF child_idx >= Len(source.children)
    THEN seg
    ELSE LET child_index == GetChildIndex(seg, seg.vector_data[index].child_index, child_idx)
         IN StructChildLoop(CopyFunction(seg, child_index, source.children[child_idx + 1], source_offset, copy_count),
                            index, source, source_offset, copy_count, child_idx + 1)

\* the allocation loop of ColumnDataCopyStruct (lines 238-244)
RECURSIVE AllocateChildren(_, _, _, _, _)
AllocateChildren(seg, index, child_types, base_index, child_idx) ==
    IF child_idx >= Len(child_types)
    THEN [seg EXCEPT !.vector_data[index].child_index = base_index]
    ELSE LET a == AllocateVector(seg, child_types[child_idx + 1])
         IN AllocateChildren(SetChildIndex(a, base_index, child_idx, Allocated(a)), index, child_types, base_index, child_idx + 1)

\* a ColumnDataCopyStruct that allocates the child vectors on every call
ColumnDataCopyStructRealloc(seg, index, source, source_offset, copy_count) ==
    LET src(i) == source.sel[source_offset + i] + 1
        seg1 == [seg EXCEPT !.vector_data[index].valid = @ \o [i \in 1..copy_count |-> source.valid[src(i)]],
                            !.vector_data[index].count = @ + copy_count]
        child_types == source.type.children
        seg2 == AllocateChildren(ReserveChildren(seg1, Len(child_types)), index, child_types, Len(seg1.child_indices) + 1, 0)
    IN StructChildLoop(seg2, index, source, source_offset, copy_count, 0)

\* ColumnDataCopyStruct (lines 221-257)
ColumnDataCopyStruct(seg, index, source, source_offset, copy_count) ==
    LET src(i) == source.sel[source_offset + i] + 1
        seg1 == [seg EXCEPT !.vector_data[index].valid = @ \o [i \in 1..copy_count |-> source.valid[src(i)]],
                            !.vector_data[index].count = @ + copy_count]
        child_types == source.type.children
        seg2 == IF seg1.vector_data[index].child_index = 0
                THEN AllocateChildren(ReserveChildren(seg1, Len(child_types)), index, child_types, Len(seg1.child_indices) + 1, 0)
                ELSE seg1
    IN StructChildLoop(seg2, index, source, source_offset, copy_count, 0)

\* the function GetCopyFunction (lines 259-324) chose for the slot's type
CopyFunction(seg, index, source, source_offset, copy_count) ==
    IF source.type.k = "LIST" THEN ColumnDataCopyList(seg, index, source, source_offset, copy_count)
    ELSE IF source.type.k = "STRUCT" THEN ColumnDataCopyStruct(seg, index, source, source_offset, copy_count)
    ELSE NestedTemplatedCopy(seg, index, source, source_offset, copy_count, 0)

\* ColumnDataCollectionSegment::AllocateNewChunk: one slot per column
RECURSIVE NestedAllocateChunk(_, _, _)
NestedAllocateChunk(seg, roots, vector_idx) ==
    IF vector_idx > Len(seg.types)
    THEN [seg EXCEPT !.chunk_data = Append(@, [count |-> 0, vector_data |-> roots])]
    ELSE LET a == AllocateVector(seg, seg.types[vector_idx])
         IN NestedAllocateChunk(a, Append(roots, Allocated(a)), vector_idx + 1)

\* the loop over the columns in Append (lines 355-360)
RECURSIVE NestedCopyColumns(_, _, _, _, _)
NestedCopyColumns(seg, input, offset, append_amount, vector_idx) ==
    IF vector_idx > Len(seg.types)
    THEN seg
    ELSE LET chunk == seg.chunk_data[Len(seg.chunk_data)]
         IN NestedCopyColumns(CopyFunction(seg, chunk.vector_data[vector_idx], input.data[vector_idx], offset, append_amount),
                              input, offset, append_amount, vector_idx + 1)

\* the while loop of Append (lines 349-370) on the nested segment
RECURSIVE NestedAppendLoop(_, _, _)
NestedAppendLoop(seg, input, remaining) ==
    IF remaining = 0
    THEN seg
    ELSE LET ci == Len(seg.chunk_data)
             append_amount == MinValue(remaining, STANDARD_VECTOR_SIZE - seg.chunk_data[ci].count)
             offset == input.size - remaining
             seg1 == IF append_amount > 0
                     THEN [NestedCopyColumns(seg, input, offset, append_amount, 1) EXCEPT !.chunk_data[ci].count = @ + append_amount]
                     ELSE seg
             seg2 == IF remaining - append_amount > 0 THEN NestedAllocateChunk(seg1, <<>>, 1) ELSE seg1
         IN NestedAppendLoop(seg2, input, remaining - append_amount)

\* Append(input) (lines 375-379, 88-99, 337-373) on the nested segment
NestedAppend(seg, input) ==
    LET seg0 == IF seg.chunk_data = <<>> THEN NestedAllocateChunk(seg, <<>>, 1) ELSE seg
    IN [NestedAppendLoop([seg0 EXCEPT !.calls = {}], input, input.size) EXCEPT !.count = @ + input.size]

(***************************************************************************)
(* Source vectors of nested type, after Normalify and Orrify: the data     *)
(* (values, or list entries), the validity, the selection, and the child   *)
(* vector of a list or the child vectors of a struct.                      *)
(***************************************************************************)
RECURSIVE SumLens(_, _)
SumLens(lens, i) == IF i > Len(lens) THEN 0 ELSE lens[i] + SumLens(lens, i + 1)

\* the list entries of rows with the lengths lens, laid out in the child
\* vector in row order or in reverse row order
ListEntries(lens, layout) ==
    [i \in 1..Len(lens) |->
        [offset |-> IF layout = "forward" THEN SumLens(lens, 1) - SumLens(lens, i) ELSE SumLens(lens, i + 1),
         length |-> lens[i]]]

\* the lengths of the lists of a child vector that is itself of list type
InnerLens(n) == [i \in 1..n |-> 1 + (i % 2)]

\* a vector of the type with Len(lens) rows; a list column's rows have the
\* lengths lens; values are numbered from base; row 1 is null when nullrow
RECURSIVE MkVector(_, _, _, _, _)
MkVector(type, lens, base, layout, nullrow) ==
    LET n == Len(lens)
        valid == [i \in 1..n |-> ~(nullrow /\ i = 1)]
        sel == [i \in 1..n |-> i - 1]
    IN IF type.k = "LIST"
       THEN [type |-> type, data |-> ListEntries(lens, layout), valid |-> valid, sel |-> sel,
             list_size |-> SumLens(lens, 1),
             child |-> MkVector(type.child, InnerLens(SumLens(lens, 1)), base + 10, layout, FALSE)]
       ELSE IF type.k = "STRUCT"
       THEN [type |-> type, valid |-> valid, sel |-> sel,
             children |-> [j \in 1..Len(type.children) |-> MkVector(type.children[j], lens, base + 100 * j, layout, FALSE)]]
       ELSE [type |-> type, data |-> [i \in 1..n |-> base + i], valid |-> valid, sel |-> sel]

\* the DataChunk with one such vector per column
MkNestedBatch(types, lens, base, layout, nullrow) ==
    [types |-> types, size |-> Len(lens),
     data |-> [j \in 1..Len(types) |-> MkVector(types[j], lens, base + 1000 * j, layout, nullrow)]]

\* the logical value of row i (from 1) of a source vector
RECURSIVE LogicalValue(_, _)
LogicalValue(vec, i) ==
    LET idx == vec.sel[i] + 1
    IN IF vec.type.k = "LIST"
       THEN [valid |-> vec.valid[idx],
             val |-> IF vec.valid[idx]
                     THEN [e \in 1..vec.data[idx].length |-> LogicalValue(vec.child, vec.data[idx].offset + e)]
                     ELSE <<>>]
       ELSE IF vec.type.k = "STRUCT"
       THEN [valid |-> vec.valid[idx], val |-> [j \in 1..Len(vec.children) |-> LogicalValue(vec.children[j], i)]]
       ELSE [valid |-> vec.valid[idx], val |-> IF vec.valid[idx] THEN vec.data[idx] ELSE 0]

NestedLogicalRows(input) == [i \in 1..input.size |-> [j \in 1..Len(input.types) |-> LogicalValue(input.data[j], i)]]

(***************************************************************************)
(* Reading the nested storage: the chain of a list's child slot,           *)
(* flattened; a list entry is the run (offset, length) of it.              *)
(***************************************************************************)
RECURSIVE ReadSlotValue(_, _, _)
RECURSIVE ChainValues(_, _)

ChainValues(seg, index) ==
    IF index = 0 THEN <<>>
    ELSE [i \in 1..seg.vector_data[index].count |-> ReadSlotValue(seg, index, i)] \o ChainValues(seg, seg.vector_data[index].next_data)

ReadSlotValue(seg, index, i) ==
    LET slot == seg.vector_data[index]
    IN IF slot.type.k = "LIST"
       THEN [valid |-> slot.valid[i],
             val |-> IF slot.valid[i]
                     THEN LET chain == ChainValues(seg, GetChildIndex(seg, slot.child_index, 0))
                          IN [e \in 1..slot.data[i].length |-> chain[slot.data[i].offset + e]]
                     ELSE <<>>]
       ELSE IF slot.type.k = "STRUCT"
       THEN [valid |-> slot.valid[i],
             val |-> [j \in 1..Len(slot.type.children) |-> ReadSlotValue(seg, GetChildIndex(seg, slot.child_index, j - 1), i)]]
       ELSE [valid |-> slot.valid[i], val |-> IF slot.valid[i] THEN slot.data[i] ELSE 0]

RECURSIVE NestedStoredRows(_, _)
NestedStoredRows(seg, ci) ==
    IF ci > Len(seg.chunk_data) THEN <<>>
    ELSE [i \in 1..seg.chunk_data[ci].count |-> [j \in 1..Len(seg.types) |-> ReadSlotValue(seg, seg.chunk_data[ci].vector_data[j], i)]]
         \o NestedStoredRows(seg, ci + 1)

(***************************************************************************)
(* SpecNested: Append(input) calls on one collection of one segment with a *)
(* list or struct column.                                                  *)
(***************************************************************************)
NestedTypeLists ==
    { <<ListType(IntType)>>,
      <<StructType(<<IntType, ListType(IntType)>>)>>,
      <<ListType(StructType(<<IntType, IntType>>))>>,
      <<ListType(ListType(IntType))>> }

\* the list lengths of the rows of a batch: no row, an empty list, a list
\* longer than two vectors, three short lists, a full vector and one more
LensPatterns ==
    { <<>>, <<0>>, <<2 * STANDARD_VECTOR_SIZE + 1>>, <<1, 0, 2>>, <<STANDARD_VECTOR_SIZE, 1>> }

NewNestedSegment(types) == [types |-> types, count |-> 0, vector_data |-> <<>>, child_indices |-> <<>>, chunk_data |-> <<>>, calls |-> {}]

InitNested ==
    /\ \E types \in NestedTypeLists : nseg = NewNestedSegment(types)
    /\ nlog = [rows |-> <<>>, appends |-> 0]

DoNestedAppend(input) ==
    /\ nlog.appends < MaxAppends
    /\ nseg' = NestedAppend(nseg, input)
    /\ nlog' = [rows |-> nlog.rows \o NestedLogicalRows(input), appends |-> nlog.appends + 1]
    /\ UNCHANGED <<collVars, maskVars, parVars, scanVars>>

NextNested ==
    \E lens \in LensPatterns : \E layout \in {"forward", "backward"} : \E nullrow \in BOOLEAN :
        DoNestedAppend(MkNestedBatch(nseg.types, lens, 10000 * nlog.appends, layout, nullrow))

NestedInit == InitNested /\ CollIdle /\ MaskIdle /\ ParIdle /\ ScanIdle

SpecNested == NestedInit /\ [][NextNested]_vars

\* the slots reached from slot index through next_data
RECURSIVE Chain(_, _)
Chain(seg, index) == IF index = 0 THEN <<>> ELSE <<index>> \o Chain(seg, seg.vector_data[index].next_data)

\* C16: every slot's count is at most STANDARD_VECTOR_SIZE, and a slot that
\* has a next slot holds exactly STANDARD_VECTOR_SIZE values
SlotCountsBounded ==
    \A index \in 1..Len(nseg.vector_data) :
        /\ nseg.vector_data[index].count <= STANDARD_VECTOR_SIZE
        /\ nseg.vector_data[index].next_data # 0 => nseg.vector_data[index].count = STANDARD_VECTOR_SIZE

\* C16 witness: a list's child chain of three slots, the first two full
SlotCountsBoundedWitness ==
    \E index \in 1..Len(nseg.vector_data) :
        /\ nseg.vector_data[index].type.k = "LIST" /\ nseg.vector_data[index].child_index # 0
        /\ LET chain == Chain(nseg, GetChildIndex(nseg, nseg.vector_data[index].child_index, 0))
           IN /\ Len(chain) = 3
              /\ nseg.vector_data[chain[1]].count = STANDARD_VECTOR_SIZE
              /\ nseg.vector_data[chain[2]].count = STANDARD_VECTOR_SIZE
              /\ nseg.vector_data[chain[3]].count \in 1..(STANDARD_VECTOR_SIZE - 1)

\* the child slots of the struct slot index
StructChildren(seg, index) ==
    [j \in 1..Len(seg.vector_data[index].type.children) |-> GetChildIndex(seg, seg.vector_data[index].child_index, j - 1)]

\* every struct slot that has received rows has one child slot per field,
\* each of the field's type and with the struct slot's count
StructLockstep(seg) ==
    \A index \in 1..Len(seg.vector_data) :
        LET slot == seg.vector_data[index]
        IN (slot.type.k = "STRUCT" /\ slot.count > 0) =>
               /\ slot.child_index # 0
               /\ \A j \in 1..Len(slot.type.children) :
                      LET child == StructChildren(seg, index)[j]
                      IN /\ child \in 1..Len(seg.vector_data)
                         /\ seg.vector_data[child].type = slot.type.children[j]
                         /\ seg.vector_data[child].count = slot.count
               /\ \A j1, j2 \in 1..Len(slot.type.children) :
                      j1 # j2 => StructChildren(seg, index)[j1] # StructChildren(seg, index)[j2]

\* C17: a struct slot that has received rows has exactly one child slot per
\* field, with the struct slot's own count, and an Append never replaces
\* the child slots a struct slot already has
StructChildrenLockstep ==
    [][/\ StructLockstep(nseg) /\ StructLockstep(nseg')
       /\ \A index \in 1..Len(nseg.vector_data) :
              (nseg.vector_data[index].type.k = "STRUCT" /\ nseg.vector_data[index].child_index # 0) =>
                  /\ nseg'.vector_data[index].child_index = nseg.vector_data[index].child_index
                  /\ StructChildren(nseg', index) = StructChildren(nseg, index)]_vars

\* C17 witness: two Append calls of one row each wrote the same struct
\* slot, and its children hold two values each
StructChildrenLockstepWitness ==
    /\ nlog.appends = 2 /\ Len(nlog.rows) = 2 /\ Len(nseg.chunk_data) = 1
    /\ \E index \in 1..Len(nseg.vector_data) :
           /\ nseg.vector_data[index].type.k = "STRUCT"
           /\ nseg.vector_data[index].count = 2
           /\ \A j \in 1..Len(nseg.vector_data[index].type.children) :
                  nseg.vector_data[StructChildren(nseg, index)[j]].count = 2

\* every valid list entry of every slot lies within the flattened chain of
\* the slot's child
ListEntriesInRange(seg) ==
    \A index \in 1..Len(seg.vector_data) :
        LET slot == seg.vector_data[index]
        IN slot.type.k = "LIST" =>
               \A i \in 1..slot.count :
                   slot.valid[i] =>
                       /\ slot.child_index # 0
                       /\ slot.data[i].offset + slot.data[i].length <= ChainCount(seg, GetChildIndex(seg, slot.child_index, 0))

\* the rows read back from the chunks are the rows appended, in order:
\* every list holds the elements of its source list in their order
ListsReadBack == ListEntriesInRange(nseg) /\ NestedStoredRows(nseg, 1) = nlog.rows

\* C12 as stated: lists read back as appended, and every
\* ColumnDataCopy<list_entry_t> call added to its entries the number of
\* child values that were in the chain when it began
ListOffsetIntegrity ==
    /\ ListsReadBack
    /\ \A call \in nseg.calls : call.added = call.resident

\* C12 amended: lists read back as appended; a call whose child vector
\* holds at least one value added the number of child values that were in
\* the chain when it began, a call with an empty child vector added 0
ListOffsetIntegrityNonEmpty ==
    /\ ListsReadBack
    /\ \A call \in nseg.calls :
           call.added = IF call.child_list_size > 0 THEN call.resident ELSE 0

\* C12 witness: a call copied a row whose list has more than two vectors of
\* elements into a chain that already held child values
ListOffsetIntegrityWitness ==
    \E call \in nseg.calls :
        /\ call.child_list_size = 2 * STANDARD_VECTOR_SIZE + 1
        /\ call.copied = 1
        /\ call.resident > 0
        /\ call.added = call.resident
        /\ Len(Chain(nseg, GetChildIndex(nseg, nseg.vector_data[call.index].child_index, 0))) >= 3

====
